---- MODULE Spec2Model ----
(***************************************************************************)
(* Model of package decimals (src/decimals.go): RoundInt, RoundFloat,      *)
(* FormatThousands, FormatInt and FormatFloat.                             *)
(*                                                                         *)
(* The package is a set of pure functions.  A behaviour of the model is    *)
(* one call: Init draws the arguments, and one action per exported         *)
(* function runs the whole function and stores what it returns.            *)
(*                                                                         *)
(* Strings and byte slices are sequences of one-character strings.  Go     *)
(* indexes from 0, TLA+ from 1: At and Put take the Go index.              *)
(*                                                                         *)
(* TLC's integers are 32 bits wide, so int64 is modelled as a two's        *)
(* complement integer of IntBits bits; like int64, its largest value ends  *)
(* in a digit >= 5, so rounding it to the nearest ten leaves the range.    *)
(* float64 is modelled as a sign-magnitude binary fixed-point number with  *)
(* FracBits fractional bits: [neg, int, frac] is (-1)^neg * (int +         *)
(* frac / 2^FracBits).  Decimal fractions are in general not members of    *)
(* that set, as they are not of float64, and parsing rounds to the nearest *)
(* member.                                                                 *)
(***************************************************************************)
EXTENDS Integers, Sequences, FiniteSets, TLC

VARIABLES fn, x, fx, precision, pc, ret, panicked

vars == <<fn, x, fx, precision, pc, ret, panicked>>

----------------------------------------------------------------------------
(* Bounds of the model *)

\* width of the modelled int64
IntBits == 21
\* precisions run from -MaxPower to MaxPrec
MaxPower == 8
MaxPrec == 2
\* every integer of magnitude <= SmallMax is an input
SmallMax == 1250
\* the inputs within EdgeBand of the smallest and of the largest int64
EdgeBand == 60
\* inputs m * 10^k + d, m <= MidLead, |d| <= MidOff
MidLead == 10
MidOff == 2
\* fractional bits of the modelled float64
FracBits == 7
\* float inputs have the integer parts 0 .. FloatSmall, and the picked ones
FloatSmall == 10

----------------------------------------------------------------------------
(* Arithmetic helpers *)

RECURSIVE Pow(_, _)
Pow(b, e) == IF e = 0 THEN 1 ELSE b * Pow(b, e - 1)

Abs(n) == IF n < 0 THEN -n ELSE n

MaxInt64 == Pow(2, IntBits - 1) - 1
MinInt64 == -Pow(2, IntBits - 1)

----------------------------------------------------------------------------
(* Bytes, slices, strconv for integers *)

decimalInts ==
    [c \in {"0", "1", "2", "3", "4", "5", "6", "7", "8", "9"} |->
        CASE c = "0" -> 0 [] c = "1" -> 1 [] c = "2" -> 2 [] c = "3" -> 3
          [] c = "4" -> 4 [] c = "5" -> 5 [] c = "6" -> 6 [] c = "7" -> 7
          [] c = "8" -> 8 [] c = "9" -> 9]

decimalBytes == <<"0", "1", "2", "3", "4", "5", "6", "7", "8", "9">>

\* s[i] is within the slice
InRange(s, i) == i >= 0 /\ i < Len(s)

At(s, i) == s[i + 1]

Put(s, i, b) == [s EXCEPT ![i + 1] = b]

RECURSIVE DigitsOf(_)
DigitsOf(n) ==
    IF n < 10 THEN <<decimalBytes[n + 1]>>
    ELSE Append(DigitsOf(n \div 10), decimalBytes[(n % 10) + 1])

\* strconv.FormatInt(x, 10)
StrconvFormatInt(n) == IF n < 0 THEN <<"-">> \o DigitsOf(-n) ELSE DigitsOf(n)

RECURSIVE DigitsValue(_)
DigitsValue(s) ==
    IF Len(s) = 0 THEN 0
    ELSE 10 * DigitsValue(SubSeq(s, 1, Len(s) - 1)) + decimalInts[s[Len(s)]]

\* variant: a value out of range comes back as 0
StrconvParseInt_zero(s) ==
    LET neg == s[1] = "-"
        mag == DigitsValue(IF neg THEN Tail(s) ELSE s)
    IN  IF (~neg /\ mag > MaxInt64) \/ (neg /\ mag > -MinInt64) THEN 0
        ELSE IF neg THEN -mag ELSE mag

\* strconv.ParseInt(s, 10, 64) with its error dropped: a value out of range
\* comes back as the nearest int64.
StrconvParseInt(s) ==
    LET neg == s[1] = "-"
        mag == DigitsValue(IF neg THEN Tail(s) ELSE s)
    IN  IF ~neg /\ mag > MaxInt64 THEN MaxInt64
        ELSE IF neg /\ mag > -MinInt64 THEN MinInt64
        ELSE IF neg THEN -mag ELSE mag

----------------------------------------------------------------------------
(* RoundInt *)

\* what a call comes to: a returned value, or a run-time panic
Return(v) == [panic |-> FALSE, val |-> v]
Panic == [panic |-> TRUE, val |-> 0]

\* variant: a five rounds down
RoundsDown_le(digit) == digit <= 5

\* "if firstDigit < 5", "if roundDigit < 5"
RoundsDown(digit) == digit < 5

\* variant: the carry loop runs once more, to j = -1
CarryLoopCond_ge(i) == i >= 0

\* the carry loop's condition, "i > 0"
CarryLoopCond(i) == i > 0

\* "for i := roundFrom; i > 0; i--": the slice and zeroFrom it leaves
RECURSIVE CarryLoop(_, _)
CarryLoop(xslice, i) ==
    IF ~CarryLoopCond(i) THEN [panic |-> FALSE, xslice |-> xslice, zeroFrom |-> -1]
    ELSE LET j == i - 1 IN
         IF ~InRange(xslice, j) THEN [panic |-> TRUE, xslice |-> xslice, zeroFrom |-> -1]
         ELSE LET nextDigit == decimalInts[At(xslice, j)] IN
              IF nextDigit < 9
              THEN [panic |-> FALSE,
                    xslice |-> Put(xslice, j, decimalBytes[nextDigit + 1 + 1]),
                    zeroFrom |-> i]
              ELSE CarryLoop(xslice, i - 1)

\* "for i := zeroFrom; i < len(xslice); i++ { xslice[i] = '0' }"
RECURSIVE ZeroLoop(_, _)
ZeroLoop(xslice, i) ==
    IF ~(i < Len(xslice)) THEN [panic |-> FALSE, xslice |-> xslice]
    ELSE IF ~InRange(xslice, i) THEN [panic |-> TRUE, xslice |-> xslice]
    ELSE ZeroLoop(Put(xslice, i, "0"), i + 1)

\* variant: the digit at zeroFrom is left as it is
ZeroDigits_skip(xslice, zeroFrom) == ZeroLoop(xslice, zeroFrom + 1)

\* "Zero all digits after the rounding point"
ZeroDigits(xslice, zeroFrom) == ZeroLoop(xslice, zeroFrom)

\* the end of RoundInt: zero the digits, put the sign back, parse
Finish(n, xslice, zeroFrom) ==
    LET z == ZeroDigits(xslice, zeroFrom) IN
    IF z.panic THEN Panic
    ELSE LET rstr == IF n < 0 THEN <<"-">> \o z.xslice ELSE z.xslice
         IN  Return(StrconvParseInt(rstr))

RoundIntRun(n, p) ==
    LET xstr == StrconvFormatInt(n)
        xslice == IF n < 0 THEN Tail(xstr) ELSE xstr
        roundFrom == Len(xslice) + p
    IN  IF p > -1 THEN Return(n)
        ELSE IF roundFrom < 0 THEN Return(0)
        ELSE IF roundFrom = 0
        THEN IF ~InRange(xslice, 0) THEN Panic
             ELSE IF RoundsDown(decimalInts[At(xslice, 0)]) THEN Return(0)
             ELSE Finish(n, <<"1">> \o xslice, 1)
        ELSE IF ~InRange(xslice, roundFrom) THEN Panic
             ELSE IF RoundsDown(decimalInts[At(xslice, roundFrom)])
             THEN Finish(n, xslice, roundFrom)
             ELSE LET c == CarryLoop(xslice, roundFrom) IN
                  IF c.panic THEN Panic
                  ELSE IF c.zeroFrom = -1
                  THEN Finish(n, <<"1">> \o c.xslice, 1)
                  ELSE Finish(n, c.xslice, c.zeroFrom)

----------------------------------------------------------------------------
(* FormatThousands *)

\* variant: the sign is counted as a digit
Commas_nosign(n, lenx) == (lenx - 1) \div 3

\* the number of commas, by the sign of x (Go's / truncates; lenx >= 2 when
\* x < 0, so both dividends are >= 0)
Commas(n, lenx) == IF n < 0 THEN (lenx - 2) \div 3 ELSE (lenx - 1) \div 3

\* the inner loop "for l := 0; l < 3; l++": st is [panic, fslice, i, j]
RECURSIVE CopyThree(_, _, _)
CopyThree(xslice, st, l) ==
    IF ~(l < 3) \/ st.panic THEN st
    ELSE IF ~InRange(st.fslice, st.j) \/ ~InRange(xslice, st.i)
    THEN [st EXCEPT !.panic = TRUE]
    ELSE CopyThree(xslice,
                   [st EXCEPT !.fslice = Put(st.fslice, st.j, At(xslice, st.i)),
                              !.i = st.i - 1, !.j = st.j - 1],
                   l + 1)

\* the outer loop "for k := 0; k < commas; k++"
RECURSIVE CopyGroups(_, _, _, _)
CopyGroups(xslice, st, k, commas) ==
    IF ~(k < commas) \/ st.panic THEN st
    ELSE LET t == CopyThree(xslice, st, 0) IN
         IF t.panic THEN t
         ELSE IF ~InRange(t.fslice, t.j) THEN [t EXCEPT !.panic = TRUE]
         ELSE CopyGroups(xslice,
                         [t EXCEPT !.fslice = Put(t.fslice, t.j, ","), !.j = t.j - 1],
                         k + 1, commas)

\* "for ; i >= 0; i, j = i - 1, j - 1"
RECURSIVE CopyRest(_, _)
CopyRest(xslice, st) ==
    IF ~(st.i >= 0) \/ st.panic THEN st
    ELSE IF ~InRange(st.fslice, st.j) \/ ~InRange(xslice, st.i)
    THEN [st EXCEPT !.panic = TRUE]
    ELSE CopyRest(xslice,
                  [st EXCEPT !.fslice = Put(st.fslice, st.j, At(xslice, st.i)),
                             !.i = st.i - 1, !.j = st.j - 1])

FormatThousandsRun(n) ==
    LET xslice == StrconvFormatInt(n)
        lenx == Len(xslice)
        commas == Commas(n, lenx)
        lenf == lenx + commas
        \* make([]byte, lenf): zero bytes, written "" here
        fslice == [k \in 1..lenf |-> ""]
        st0 == [panic |-> FALSE, fslice |-> fslice, i |-> lenx - 1, j |-> lenf - 1]
        st == CopyRest(xslice, CopyGroups(xslice, st0, 0, commas))
    IN  IF st.panic THEN Panic ELSE Return(st.fslice)

\* FormatInt: FormatThousands(RoundInt(x, precision))
FormatIntRun(n, p) ==
    LET r == RoundIntRun(n, p) IN
    IF r.panic THEN Panic ELSE FormatThousandsRun(r.val)

----------------------------------------------------------------------------
(* float64 and strconv for floats *)

\* the number of float64 values per unit
Unit == Pow(2, FracBits)

\* "x < 0" on a float64: false of negative zero
FloatNegative(f) == f.neg /\ (f.int > 0 \/ f.frac > 0)

\* round a / b (a >= 0, b > 0) to an integer, halves to even
DivHalfEven(a, b, lastOdd) ==
    LET q == a \div b
        r == a % b
    IN  IF 2 * r > b \/ (2 * r = b /\ lastOdd) THEN q + 1 ELSE q

\* the digits of n, padded with zeros on the left to width w
ZeroPadded(n, w) ==
    LET d == DigitsOf(n)
    IN  [k \in 1..(w - Len(d)) |-> "0"] \o d

\* strconv.FormatFloat(f, 'f', prec, 64): the exact value of f rounded to
\* prec fractional digits, an exact half to the even neighbour; the sign bit
\* gives the '-', also of a zero.
StrconvFormatFloat(f, prec) ==
    LET scale == Pow(10, prec)
        q0 == (f.frac * scale) \div Unit
        lastOdd == IF prec = 0 THEN f.int % 2 = 1 ELSE q0 % 2 = 1
        q == DivHalfEven(f.frac * scale, Unit, lastOdd)
        ipart == IF q = scale THEN f.int + 1 ELSE f.int
        fpart == IF q = scale THEN 0 ELSE q
    IN  (IF f.neg THEN <<"-">> ELSE <<>>)
            \o DigitsOf(ipart)
            \o (IF prec > 0 THEN <<".">> \o ZeroPadded(fpart, prec) ELSE <<>>)

\* the float64 nearest to the decimal (-1)^neg * (ipart + fpart / 10^digits),
\* halves to even
NearestFloat(neg, ipart, fpart, digits) ==
    LET scale == Pow(10, digits)
        q0 == (fpart * Unit) \div scale
        q == DivHalfEven(fpart * Unit, scale, q0 % 2 = 1)
    IN  IF q = Unit THEN [neg |-> neg, int |-> ipart + 1, frac |-> 0]
        ELSE [neg |-> neg, int |-> ipart, frac |-> q]

\* the index of the first "." of s, or Len(s) + 1
RECURSIVE PointAt(_, _)
PointAt(s, k) == IF k > Len(s) \/ s[k] = "." THEN k ELSE PointAt(s, k + 1)

\* strconv.ParseFloat(s, 64) with its error dropped
StrconvParseFloat(s) ==
    LET neg == s[1] = "-"
        body == IF neg THEN Tail(s) ELSE s
        dot == PointAt(body, 1)
        idigits == SubSeq(body, 1, dot - 1)
        fdigits == SubSeq(body, dot + 1, Len(body))
    IN  NearestFloat(neg, DigitsValue(idigits), DigitsValue(fdigits), Len(fdigits))

\* variant: the integer part is the floor
Modf_floor(f) ==
    IF f.neg /\ f.frac > 0
    THEN [int |-> [neg |-> TRUE, int |-> f.int + 1, frac |-> 0],
          frac |-> [neg |-> FALSE, int |-> 0, frac |-> Unit - f.frac]]
    ELSE [int |-> [neg |-> f.neg, int |-> f.int, frac |-> 0],
          frac |-> [neg |-> f.neg, int |-> 0, frac |-> f.frac]]

\* variant: the integer part is the nearest integer
Modf_nearest(f) ==
    IF 2 * f.frac >= Unit
    THEN [int |-> [neg |-> f.neg, int |-> f.int + 1, frac |-> 0],
          frac |-> [neg |-> ~f.neg, int |-> 0, frac |-> Unit - f.frac]]
    ELSE [int |-> [neg |-> f.neg, int |-> f.int, frac |-> 0],
          frac |-> [neg |-> f.neg, int |-> 0, frac |-> f.frac]]

\* math.Modf: the integer and the fractional part, each with the sign of f
Modf(f) ==
    [int |-> [neg |-> f.neg, int |-> f.int, frac |-> 0],
     frac |-> [neg |-> f.neg, int |-> 0, frac |-> f.frac]]

\* int64(i) of an integral float64: the value when int64 has it; otherwise
\* the conversion is implementation-dependent, and builds give the smallest
\* int64 or the limit on the value's side.
Int64OfFloat(i) ==
    LET v == IF i.neg THEN -i.int ELSE i.int
    IN  IF MinInt64 <= v /\ v <= MaxInt64 THEN {v}
        ELSE IF v > MaxInt64 THEN {MinInt64, MaxInt64}
        ELSE {MinInt64}

\* float64(n) of an int64
Float64OfInt(n) == [neg |-> n < 0, int |-> Abs(n), frac |-> 0]

----------------------------------------------------------------------------
(* RoundFloat and FormatFloat: the set of results a call can come to *)

RoundFloatRun(f, p) ==
    IF p < 0
    THEN { LET r == RoundIntRun(v, p)
           IN  IF r.panic THEN Panic ELSE Return(Float64OfInt(r.val)) :
             v \in Int64OfFloat(Modf(f).int) }
    ELSE { Return(StrconvParseFloat(StrconvFormatFloat(f, p))) }

\* FormatFloat once RoundFloat has returned r and int64(i) has given v
FormatFloatRest(f, p, r, v) ==
    LET is == FormatThousandsRun(v)
        fs == StrconvFormatFloat(Modf(r).frac, p)
        from == IF FloatNegative(f) THEN 3 ELSE 2
    IN  IF is.panic THEN Panic
        ELSE IF p <= 0 THEN is
        ELSE IF from > Len(fs) THEN Panic
        ELSE Return(is.val \o <<".">> \o SubSeq(fs, from + 1, Len(fs)))

FormatFloatRun(f, p) ==
    UNION { IF r.panic THEN {Panic}
            ELSE { FormatFloatRest(f, p, r.val, v) :
                     v \in Int64OfFloat(Modf(r.val).int) } :
            r \in RoundFloatRun(f, p) }

----------------------------------------------------------------------------
(* Inputs *)

Precisions == (-MaxPower)..MaxPrec

IntInputs ==
    ((-SmallMax)..SmallMax)
    \cup (MinInt64..(MinInt64 + EdgeBand))
    \cup ((MaxInt64 - EdgeBand)..MaxInt64)
    \cup {s * (m * Pow(10, k) + d) :
            s \in {-1, 1}, m \in 1..MidLead, k \in 3..5, d \in (-MidOff)..MidOff}

\* the float argument of a call that takes none
NoFloat == [neg |-> FALSE, int |-> 0, frac |-> 0]

Init ==
    /\ fn = "none"
    /\ x \in IntInputs
    /\ fx = NoFloat
    /\ precision \in Precisions
    /\ pc = "call"
    /\ ret = 0
    /\ panicked = FALSE

Finished(f, r) ==
    /\ fn' = f
    /\ pc' = "done"
    /\ panicked' = r.panic
    /\ ret' = r.val
    /\ UNCHANGED <<x, fx, precision>>

CallRoundInt ==
    /\ pc = "call"
    /\ Finished("RoundInt", RoundIntRun(x, precision))

CallFormatThousands ==
    /\ pc = "call"
    /\ Finished("FormatThousands", FormatThousandsRun(x))

CallFormatInt ==
    /\ pc = "call"
    /\ Finished("FormatInt", FormatIntRun(x, precision))

Next == CallRoundInt \/ CallFormatThousands \/ CallFormatInt

Spec == Init /\ [][Next]_vars

FloatInputs ==
    [neg : BOOLEAN,
     int : (0..FloatSmall)
             \cup {54, 55, 99, 149, 150, 999, 5555, 9999, MaxInt64 - 1, MaxInt64},
     frac : 0..(Unit - 1)]

InitFloat ==
    /\ fn = "none"
    /\ x = 0
    /\ fx \in FloatInputs
    /\ precision \in Precisions
    /\ pc = "call"
    /\ ret = 0
    /\ panicked = FALSE

CallRoundFloat ==
    /\ pc = "call"
    /\ \E r \in RoundFloatRun(fx, precision) : Finished("RoundFloat", r)

CallFormatFloat ==
    /\ pc = "call"
    /\ \E r \in FormatFloatRun(fx, precision) : Finished("FormatFloat", r)

NextFloat == CallRoundFloat \/ CallFormatFloat

SpecFloat == InitFloat /\ [][NextFloat]_vars

----------------------------------------------------------------------------
(* Properties of the integer functions, checked under Spec *)

Done(f) == pc = "done" /\ fn = f

Sign(n) == IF n < 0 THEN -1 ELSE 1

\* the multiple of 10^power nearest to n, exact halves away from zero
NearestMultiple(n, power) ==
    LET m == Pow(10, power)
    IN  Sign(n) * (((Abs(n) + m \div 2) \div m) * m)

RoundIntReference(n, p) == IF p >= 0 THEN n ELSE NearestMultiple(n, -p)

FitsInt64(n) == MinInt64 <= n /\ n <= MaxInt64

\* C1: whenever the rounded value fits in int64, RoundInt(x, p) is x for
\* p >= 0 and otherwise the multiple of 10^(-p) nearest to x, exact halves
\* rounded away from zero.
C1_RoundIntMatchesReference ==
    (Done("RoundInt") /\ FitsInt64(RoundIntReference(x, precision)))
        => (~panicked /\ ret = RoundIntReference(x, precision))

\* a carry through a run of nines that adds a digit
C1_Witness ==
    Done("RoundInt") /\ x = 999 /\ precision = -1 /\ ret = 1000

\* C2: RoundInt is idempotent at a fixed precision: rounding what RoundInt
\* returned, at the same precision, returns it unchanged.
C2_RoundIntIdempotent ==
    Done("RoundInt") => RoundIntRun(ret, precision) = Return(ret)

\* a negative x whose first rounding gains a digit
C2_Witness ==
    /\ Done("RoundInt") /\ x = -995 /\ precision = -2 /\ ret = -1000
    /\ RoundIntRun(ret, precision) = Return(-1000)

\* C3 as claimed: for every x and every p < 0 the magnitude of RoundInt(x, p)
\* is a multiple of 10^(-p).
C3_AlwaysMultiple ==
    (Done("RoundInt") /\ precision < 0) => Abs(ret) % Pow(10, -precision) = 0

\* C3 as amended: for every x and every p < 0 the magnitude of RoundInt(x, p)
\* is a multiple of 10^(-p), unless the result is the smallest or the largest
\* int64.
C3_MultipleUnlessLimit ==
    (Done("RoundInt") /\ precision < 0)
        => (ret \in {MinInt64, MaxInt64} \/ Abs(ret) % Pow(10, -precision) = 0)

\* a rounding up to a non-zero multiple of a hundred
C3_Witness ==
    Done("RoundInt") /\ x = -555 /\ precision = -2 /\ ret = -600

\* the string with its commas deleted
RECURSIVE DeleteCommas(_)
DeleteCommas(s) ==
    IF Len(s) = 0 THEN s
    ELSE IF Head(s) = "," THEN DeleteCommas(Tail(s))
    ELSE <<Head(s)>> \o DeleteCommas(Tail(s))

\* a digit string with a comma before every group of three counted from
\* the right
RECURSIVE Grouped(_)
Grouped(digits) ==
    IF Len(digits) <= 3 THEN digits
    ELSE Grouped(SubSeq(digits, 1, Len(digits) - 3))
            \o <<",">> \o SubSeq(digits, Len(digits) - 2, Len(digits))

\* C6: FormatThousands(x) is the decimal string of x with a comma between two
\* digits exactly when the number of digits to its right is a positive
\* multiple of three, after a '-' exactly when x < 0; no comma starts the
\* string or follows the sign, and deleting the commas gives the decimal
\* string of x back.
C6_FormatThousandsGroups ==
    Done("FormatThousands") =>
        /\ ~panicked
        /\ ret = (IF x < 0 THEN <<"-">> ELSE <<>>) \o Grouped(DigitsOf(Abs(x)))
        /\ DeleteCommas(ret) = StrconvFormatInt(x)
        /\ ret[1] # ","
        /\ (ret[1] = "-") = (x < 0)
        /\ x < 0 => ret[2] # ","
        /\ \A k \in 1..Len(ret) :
              ret[k] = "," =>
                 /\ k > 1 /\ ret[k - 1] \in DOMAIN decimalInts
                 /\ Len(ret) - k >= 3
                 /\ \A l \in 1..3 : ret[k + l] \in DOMAIN decimalInts
                 /\ (Len(ret) - k = 3 \/ ret[k + 4] = ",")

C6_Witness ==
    Done("FormatThousands") /\ x = -1234 /\ ret = <<"-", "1", ",", "2", "3", "4">>

\* C7: no call of RoundInt, FormatThousands or FormatInt indexes a slice
\* outside its bounds.
C7_NoIndexOutOfRange ==
    pc = "done" => ~panicked

\* the carry loop reads down to xslice[0], and two groups are copied
C7_Witness ==
    /\ Done("FormatInt") /\ x = -999999 /\ precision = -1 /\ ~panicked
    /\ ret = <<"-", "1", ",", "0", "0", "0", ",", "0", "0", "0">>

\* C8: when the rounded value of x at p < 0 is outside int64, RoundInt returns
\* the largest int64 for positive x and the smallest for negative x.
C8_SaturatesAtLimits ==
    (Done("RoundInt") /\ precision < 0) =>
        /\ RoundIntReference(x, precision) > MaxInt64 => ret = MaxInt64
        /\ RoundIntReference(x, precision) < MinInt64 => ret = MinInt64

C8_Witness ==
    /\ Done("RoundInt") /\ x = MinInt64 /\ precision < 0
    /\ RoundIntReference(x, precision) < MinInt64 /\ ret = MinInt64

----------------------------------------------------------------------------
(* Properties of the float functions, checked under SpecFloat *)

\* x * 10^p rounded to an integer with exact halves away from zero, as the
\* float64 nearest to that decimal
HalfAwayReference(f, p) ==
    LET scale == Pow(10, p)
        q == (2 * f.frac * scale + Unit) \div (2 * Unit)
    IN  IF q = scale THEN NearestFloat(f.neg, f.int + 1, 0, p)
        ELSE NearestFloat(f.neg, f.int, q, p)

\* C4: for p >= 0, RoundFloat(x, p) is x rounded to p fractional digits, and
\* an exact half of the last digit goes to the neighbour farther from zero.
C4_HalfAwayFromZero ==
    (Done("RoundFloat") /\ precision >= 0)
        => ret = HalfAwayReference(fx, precision)

\* C5: for p < 0, RoundFloat(x, p) is RoundInt of x truncated toward zero,
\* at the same precision, as a float: the nearest multiple of 10^(-p) of the
\* truncated value, or the int64 limit when that is outside int64; what it
\* returns for x is what it returns for x without its fractional part.
C5_TruncatesThenRoundsInt ==
    (Done("RoundFloat") /\ precision < 0) =>
        LET t == IF fx.neg THEN -fx.int ELSE fx.int
            n == NearestMultiple(t, -precision)
            sat == IF n > MaxInt64 THEN MaxInt64
                   ELSE IF n < MinInt64 THEN MinInt64 ELSE n
        IN  /\ ~panicked
            /\ ret = Float64OfInt(sat)
            /\ RoundFloatRun([fx EXCEPT !.frac = 0], precision) = {Return(ret)}

\* -5.99..: the fraction is dropped, -5 rounds to -10
C5_Witness ==
    /\ Done("RoundFloat") /\ precision = -1
    /\ fx.neg /\ fx.int = 5 /\ fx.frac = Unit - 1
    /\ ret = Float64OfInt(-10)

\* the multiple of 10^power nearest to the exact value of f, exact halves
\* away from zero: the remainder rem + frac / Unit is doubled as a mixed
\* number and compared with 10^power
NearestMultipleOfFloat(f, power) ==
    LET m == Pow(10, power)
        q == f.int \div m
        rem == f.int % m
        twice == 2 * rem + (2 * f.frac) \div Unit
        k == IF twice >= m THEN q + 1 ELSE q
    IN  (IF f.neg THEN -1 ELSE 1) * k * m

\* C10 as claimed: for p < 0, RoundFloat(x, p) is the multiple of 10^(-p)
\* nearest to the untruncated x, exact halves away from zero.
C10_TruncationNeverMatters ==
    (Done("RoundFloat") /\ precision < 0)
        => ret = Float64OfInt(NearestMultipleOfFloat(fx, -precision))

\* C10 as amended: the same, whenever that multiple fits in int64.
C10_TruncationHarmlessInRange ==
    (Done("RoundFloat") /\ precision < 0
        /\ FitsInt64(NearestMultipleOfFloat(fx, -precision)))
        => ret = Float64OfInt(NearestMultipleOfFloat(fx, -precision))

\* 149.99..: truncated to 149 before rounding, and 100 either way
C10_Witness ==
    /\ Done("RoundFloat") /\ precision = -2
    /\ ~fx.neg /\ fx.int = 149 /\ fx.frac = Unit - 1
    /\ ret = Float64OfInt(100)

\* the decimal rendering of r with d fractional digits, signed when r < 0
Rendering(r, d) ==
    (IF FloatNegative(r) THEN <<"-">> ELSE <<>>)
        \o StrconvFormatFloat([r EXCEPT !.neg = FALSE], d)

\* C9: whenever the rounded value fits in int64, FormatFloat(x, p) without
\* its commas is the rendering of RoundFloat(x, p) with max(p, 0) fractional
\* digits, with a leading '-' exactly when the rounded value is below zero.
C9_FormatFloatRendersRounded ==
    Done("FormatFloat") =>
        \A r \in RoundFloatRun(fx, precision) :
            (~r.panic /\ r.val.int <= MaxInt64) =>
                /\ ~panicked
                /\ DeleteCommas(ret)
                     = Rendering(r.val, IF precision > 0 THEN precision ELSE 0)

====
